---- MODULE Spec2Model ----
(***************************************************************************)
(* Model of the core of cleanning.py: the tiered imputation engine         *)
(* (impute_missing_values, calculate_rh_from_temp_dew), the quality report *)
(* (create_data_quality_csv), the circular mean (circular_mean_degrees)    *)
(* and the aggregators (create_hourly_aggregates, create_daily_aggregates) *)
(* as main calls them.                                                     *)
(*                                                                         *)
(* Units.  Values are integers in hundredths of the physical unit          *)
(* (Temperature 10 degC = 1000, Rh 50 % = 5000); timestamps are minutes.   *)
(* Float arithmetic is modelled as fixed point with floor rounding.        *)
(* A table (DataFrame) is a record                                         *)
(*   [columns, station, Datetime_UTC, data]                                *)
(* where columns is the sequence of value/flag column names in column      *)
(* order, station and Datetime_UTC are the two key columns (one entry per  *)
(* row) and data maps every name of columns to its sequence of cells.      *)
(***************************************************************************)
EXTENDS Integers, Sequences, FiniteSets, TLC

VARIABLES
    input,                \* the table handed to impute_missing_values
    sorted_input,         \* history: the table as sorted on entry, before any tier
    df,                   \* the function's working table
    pc,                   \* position inside impute_missing_values
    numeric_cols,         \* the columns to impute, in processing order
    ci,                   \* index in numeric_cols of the column being processed
    stations_to_impute,   \* stations under the threshold for the current column
    stations_to_skip,     \* stations at or over the threshold for the current column
    all_weather_data,     \* main: the imputed table handed to the report and the aggregators
    data_quality_report,  \* main: the result of create_data_quality_csv
    hourly_aggregated,    \* main: the result of create_hourly_aggregates
    daily_aggregated,     \* main: the result of create_daily_aggregates
    raised,               \* main: the exception that ended the pipeline ("" for none)
    angles,               \* circular_mean_degrees: the values passed in
    shift,                \* a constant added to every value of angles
    mean_angle_deg,       \* circular_mean_degrees(angles)
    shifted_mean_deg      \* circular_mean_degrees(angles + shift)

imputeVars == <<input, sorted_input, df, numeric_cols, ci, stations_to_impute, stations_to_skip>>

mainVars == <<all_weather_data, data_quality_report, hourly_aggregated, daily_aggregated, raised>>

circVars == <<angles, shift, mean_angle_deg, shifted_mean_deg>>

vars == <<imputeVars, pc, mainVars, circVars>>

----------------------------------------------------------------------------
(* Program constants (CONFIG) and fixed-point scales                       *)

\* np.nan: the missing cell.  It lies outside every value the model uses.
NaN == -1000000

\* cells are hundredths of a unit
Scale == 100

\* minutes per hour
MinutesPerHour == 60

INTERPOLATE_LIMIT_HOURS == 3
FORWARD_FILL_LIMIT_HOURS == 6
BACKWARD_FILL_LIMIT_HOURS == 3
IMPUTATION_THRESHOLD_PCT == 25
TEMP_MIN == -40
TEMP_MAX == 40
RH_MIN == 0
RH_MAX == 100
DEW_MIN == -60
DEW_MAX == 50

\* the imputation flag values (comment at line 784)
Original == 0
Interpolated == 1
NeighborFilled == 2
Derived == 3

\* f'{col}_imputed'
FlagCol(col) == col \o "_imputed"

\* str.endswith
EndsWith(c, suffix) ==
    /\ Len(c) >= Len(suffix)
    /\ SubSeq(c, Len(c) - Len(suffix) + 1, Len(c)) = suffix

\* c.endswith('_imputed')
EndsWithImputed(c) == EndsWith(c, "_imputed")

\* pd.isnull on one cell
IsNull(v) == v = NaN

----------------------------------------------------------------------------
(* Sequence helpers                                                        *)

Range(s) == {s[i] : i \in DOMAIN s}

\* the sequence s as an explicit tuple (evaluated once, not cell by cell)
Materialize(s) == s \o <<>>

Max(S) == CHOOSE x \in S : \A y \in S : y <= x

Min(S) == CHOOSE x \in S : \A y \in S : x <= y

NRows(d) == Len(d.station)

\* the rows of station st, in table order (mask = df['station'] == station)
StationRows(d, st) ==
    SelectSeq([i \in 1..NRows(d) |-> i], LAMBDA i : d.station[i] = st)

\* df['station'].unique(): stations in order of first appearance
Unique(s) ==
    LET firsts == {i \in DOMAIN s : \A j \in 1..(i - 1) : s[j] # s[i]}
    IN  [k \in 1..Cardinality(firsts) |->
            s[CHOOSE i \in firsts : Cardinality({j \in firsts : j < i}) = k - 1]]

\* order of station identifiers under sort_values
StationRank(st) == IF st = "A" THEN 1 ELSE IF st = "B" THEN 2 ELSE 3

\* an order by timestamp alone
RowBefore_TimeOnly(d, i, j) == d.Datetime_UTC[i] < d.Datetime_UTC[j]

\* row i sorts before row j under ['station', 'Datetime_UTC']
RowBefore(d, i, j) ==
    \/ StationRank(d.station[i]) < StationRank(d.station[j])
    \/ /\ d.station[i] = d.station[j]
       /\ d.Datetime_UTC[i] < d.Datetime_UTC[j]

\* df.sort_values(['station', 'Datetime_UTC']).reset_index(drop=True);
\* rows with equal keys keep their relative order (stable)
SortValues(d) ==
    LET n == NRows(d)
        before(i, j) == RowBefore(d, i, j) \/ (~RowBefore(d, j, i) /\ i < j)
        rank == Materialize([i \in 1..n |->
                    Cardinality({j \in 1..n : before(j, i)})])
        perm == Materialize([k \in 1..n |->
                    CHOOSE i \in 1..n : rank[i] = k - 1])
    IN  [columns |-> d.columns,
         station |-> [k \in 1..n |-> d.station[perm[k]]],
         Datetime_UTC |-> [k \in 1..n |-> d.Datetime_UTC[perm[k]]],
         data |-> [c \in DOMAIN d.data |-> [k \in 1..n |-> d.data[c][perm[k]]]]]

\* numeric_cols: all columns except the keys and the flag columns
NumericCols(d) == SelectSeq(d.columns, LAMBDA c : ~EndsWithImputed(c))

\* df.loc[rows, col] = cells  (rows and cells are parallel sequences)
SetCells(d, col, rows, cells) ==
    [d EXCEPT !.data[col] =
        [i \in 1..NRows(d) |->
            IF \E k \in DOMAIN rows : rows[k] = i
            THEN cells[CHOOSE k \in DOMAIN rows : rows[k] = i]
            ELSE @[i]]]

\* df[col] = cells for a column that may be new (appended last when new)
SetColumn(d, col, cells) ==
    [columns |-> IF col \in Range(d.columns) THEN d.columns
                 ELSE Append(d.columns, col),
     station |-> d.station,
     Datetime_UTC |-> d.Datetime_UTC,
     data |-> [c \in (DOMAIN d.data) \cup {col} |->
                  IF c = col THEN cells ELSE d.data[c]]]

\* df[col].isnull().sum()
MissingCount(d, col) == Cardinality({i \in 1..NRows(d) : IsNull(d.data[col][i])})

----------------------------------------------------------------------------
(* pandas series operations used by the tiers                              *)

\* nearest valid position before i in series s (0 when there is none)
PrevValid(s, i) ==
    LET V == {j \in 1..(i - 1) : ~IsNull(s[j])}
    IN  IF V = {} THEN 0 ELSE Max(V)

\* nearest valid position after i in series s (0 when there is none)
NextValid(s, i) ==
    LET V == {j \in (i + 1)..Len(s) : ~IsNull(s[j])}
    IN  IF V = {} THEN 0 ELSE Min(V)

\* np.interp at position i of series s indexed by times t: linear in time
\* between the surrounding valid cells, the edge value outside them
InterpValue(s, t, i) ==
    LET p == PrevValid(s, i)
        q == NextValid(s, i)
    IN  IF p = 0 THEN s[q]
        ELSE IF q = 0 THEN s[p]
        ELSE s[p] + ((s[q] - s[p]) * (t[i] - t[p])) \div (t[q] - t[p])

\* the NaN positions pandas fills under limit / limit_direction='both':
\* those with a valid cell at most `limit` positions before or after
WithinLimit(s, i, limit) ==
    \E j \in DOMAIN s : /\ ~IsNull(s[j])
                        /\ j # i
                        /\ j - i <= limit
                        /\ i - j <= limit

\* Series.interpolate(method='time', limit=limit, limit_direction='both')
Interpolate(s, t, limit) ==
    [i \in DOMAIN s |->
        IF IsNull(s[i]) /\ WithinLimit(s, i, limit)
        THEN InterpValue(s, t, i)
        ELSE s[i]]

\* Series.ffill(limit=limit): copy the last valid cell into at most `limit`
\* consecutive NaN positions after it
Ffill(s, limit) ==
    [i \in DOMAIN s |->
        IF IsNull(s[i]) /\ PrevValid(s, i) # 0 /\ i - PrevValid(s, i) <= limit
        THEN s[PrevValid(s, i)]
        ELSE s[i]]

\* Series.bfill(limit=limit): copy the next valid cell into at most `limit`
\* consecutive NaN positions before it
Bfill(s, limit) ==
    [i \in DOMAIN s |->
        IF IsNull(s[i]) /\ NextValid(s, i) # 0 /\ NextValid(s, i) - i <= limit
        THEN s[NextValid(s, i)]
        ELSE s[i]]

\* np.clip(v, lo, hi) on one non-missing cell
Clip(v, lo, hi) == IF v < lo THEN lo ELSE IF v > hi THEN hi ELSE v

----------------------------------------------------------------------------
(* calculate_rh_from_temp_dew: Magnus formula in fixed point               *)

\* a = 17.625 and b = 243.04, in thousandths
MagnusA == 17625
MagnusB == 243040

\* e = 2.718, in thousandths
EulerMilli == 2718

\* number of Taylor terms of exp on [0, 1)
ExpTerms == 8

\* exp(f / 1000) * 10000 for 0 <= f < 1000 (Taylor series)
RECURSIVE ExpFracSum(_, _, _)
ExpFracSum(f, n, term) ==
    IF n > ExpTerms THEN 0
    ELSE term + ExpFracSum(f, n + 1, (term * f) \div (1000 * (n + 1)))

\* v * e^k for an integer k
RECURSIVE ExpIntScale(_, _)
ExpIntScale(v, k) ==
    IF k = 0 THEN v
    ELSE IF k > 0 THEN ExpIntScale((v * EulerMilli) \div 1000, k - 1)
    ELSE ExpIntScale((v * 1000) \div EulerMilli, k + 1)

\* np.exp(x) * 10000 for x in thousandths
Exp(x) == ExpIntScale(ExpFracSum(x % 1000, 0, 10000), x \div 1000)

\* (a * v) / (b + v) in thousandths, for a cell v in hundredths
MagnusExponent(v) == (MagnusA * (v * 10)) \div (MagnusB + v * 10)

\* calculate_rh_from_temp_dew(temp, dew) on one record; cells in hundredths
calculate_rh_from_temp_dew(temp, dew) ==
    LET vapor_pressure_dew == Exp(MagnusExponent(dew))
        vapor_pressure_temp == Exp(MagnusExponent(temp))
    IN  IF vapor_pressure_temp = 0
        THEN (IF vapor_pressure_dew = 0 THEN NaN ELSE 100 * Scale)
        ELSE Clip(((100 * vapor_pressure_dew) \div vapor_pressure_temp) * Scale,
                  0, 100 * Scale)

----------------------------------------------------------------------------
(* The steps of impute_missing_values on one column                        *)

\* the cells of column col at the given rows
Cells(d, col, rows) == Materialize([k \in DOMAIN rows |-> d.data[col][rows[k]]])

\* the timestamps of the given rows (the DatetimeIndex of station_df)
Times(d, rows) == Materialize([k \in DOMAIN rows |-> d.Datetime_UTC[rows[k]]])

\* df[flag_col] = 0; df.loc[df[col].isnull(), flag_col] = 1
CreateFlags(d, col) ==
    SetColumn(d, FlagCol(col),
              [i \in 1..NRows(d) |->
                  IF IsNull(d.data[col][i]) THEN Interpolated ELSE Original])

\* df.loc[rows where cond, flag_col] = tag
SetFlagWhere(d, col, cond(_), tag) ==
    [d EXCEPT !.data[FlagCol(col)] =
        [i \in 1..NRows(d) |-> IF cond(i) THEN tag ELSE @[i]]]

\* mutant of OverThreshold: the threshold itself is not skipped (> for >=)
OverThreshold_Strict(station_missing, station_total) ==
    station_missing * 100 > IMPUTATION_THRESHOLD_PCT * station_total

\* station_missing_pct >= CONFIG['IMPUTATION_THRESHOLD_PCT'], where
\* station_missing_pct = station_missing / station_total * 100
OverThreshold(station_missing, station_total) ==
    station_missing * 100 >= IMPUTATION_THRESHOLD_PCT * station_total

\* the eligibility test of one station for column col
SkipStation(d, col, st) ==
    LET rows == StationRows(d, st)
        station_total == Len(rows)
        station_missing ==
            Cardinality({k \in DOMAIN rows : IsNull(d.data[col][rows[k]])})
    IN  OverThreshold(station_missing, station_total)

\* stations_to_skip after the loop over df['station'].unique()
StationsToSkip(d, col) ==
    SelectSeq(Unique(d.station), LAMBDA st : SkipStation(d, col, st))

\* mutant of StationsToImpute: every station is imputed, skipped or not
StationsToImpute_All(d, col) == Unique(d.station)

\* stations_to_impute after the loop over df['station'].unique()
StationsToImpute(d, col) ==
    SelectSeq(Unique(d.station), LAMBDA st : ~SkipStation(d, col, st))

\* TIER 1 on one station: time interpolation of the station's sub-series
Tier1Station(d, col, st) ==
    LET rows == StationRows(d, st)
    IN  SetCells(d, col, rows,
                 Interpolate(Cells(d, col, rows), Times(d, rows),
                             INTERPOLATE_LIMIT_HOURS))

RECURSIVE Tier1(_, _, _)
Tier1(d, col, sts) ==
    IF sts = <<>> THEN d
    ELSE Tier1(Tier1Station(d, col, Head(sts)), col, Tail(sts))

\* the variables that exhibit persistence
PersistenceCols == {"Temperature", "Dew", "Rh", "Wind Speed"}

\* a fill over the whole column, across the stations
Tier2Station_WholeTable(d, col, st) ==
    LET rows == [i \in 1..NRows(d) |-> i]
        filled == Materialize(Ffill(Cells(d, col, rows), FORWARD_FILL_LIMIT_HOURS))
    IN  SetCells(d, col, rows, Bfill(filled, BACKWARD_FILL_LIMIT_HOURS))

\* TIER 2 on one station: forward fill, then backward fill
Tier2Station(d, col, st) ==
    LET rows == StationRows(d, st)
        filled == Materialize(Ffill(Cells(d, col, rows), FORWARD_FILL_LIMIT_HOURS))
    IN  SetCells(d, col, rows, Bfill(filled, BACKWARD_FILL_LIMIT_HOURS))

RECURSIVE Tier2Fill(_, _, _)
Tier2Fill(d, col, sts) ==
    IF sts = <<>> THEN d
    ELSE Tier2Fill(Tier2Station(d, col, Head(sts)), col, Tail(sts))

\* a Tier 2 that fills without marking the flags first
Tier2_KeepFlags(d, col, sts) ==
    IF col \in PersistenceCols THEN Tier2Fill(d, col, sts) ELSE d

Tier2(d, col, sts) ==
    IF col \in PersistenceCols
    THEN Tier2Fill(SetFlagWhere(d, col,
                                LAMBDA i : IsNull(d.data[col][i]),
                                NeighborFilled),
                   col, sts)
    ELSE d

\* mutant of RainStation: the mask forgets "& missing_rain"
RainStation_AllRows(d, col, st) ==
    LET fill(i) == d.station[i] = st
        flagged == SetFlagWhere(d, col, fill, Derived)
    IN  [flagged EXCEPT !.data[col] =
            [i \in 1..NRows(d) |-> IF fill(i) THEN 0 ELSE @[i]]]

\* TIER 3, Rain, one station: missing rain becomes 0
RainStation(d, col, st) ==
    LET fill(i) == d.station[i] = st /\ IsNull(d.data[col][i])
        flagged == SetFlagWhere(d, col, fill, Derived)
    IN  [flagged EXCEPT !.data[col] =
            [i \in 1..NRows(d) |-> IF fill(i) THEN 0 ELSE @[i]]]

\* TIER 3, Wind Gust Speed, one station: gust = wind speed where available
GustStation(d, col, st) ==
    LET fill(i) == /\ d.station[i] = st
                   /\ IsNull(d.data[col][i])
                   /\ ~IsNull(d.data["Wind Speed"][i])
        flagged == SetFlagWhere(d, col, fill, Derived)
    IN  [flagged EXCEPT !.data[col] =
            [i \in 1..NRows(d) |->
                IF fill(i) THEN d.data["Wind Speed"][i] ELSE @[i]]]

\* TIER 3, Rh, one station: Rh from Temperature and Dew where both present
RhStation(d, col, st) ==
    LET fill(i) == /\ d.station[i] = st
                   /\ IsNull(d.data[col][i])
                   /\ ~IsNull(d.data["Temperature"][i])
                   /\ ~IsNull(d.data["Dew"][i])
        flagged == SetFlagWhere(d, col, fill, Derived)
    IN  [flagged EXCEPT !.data[col] =
            [i \in 1..NRows(d) |->
                IF fill(i)
                THEN calculate_rh_from_temp_dew(d.data["Temperature"][i],
                                                d.data["Dew"][i])
                ELSE @[i]]]

\* a Tier 3 that fills with 0 where the column its rule reads is absent
Tier3Station_ZeroWhenAbsent(d, col, st) ==
    IF col = "Rain" THEN RainStation(d, col, st)
    ELSE IF col = "Wind Gust Speed"
    THEN (IF "Wind Speed" \in Range(d.columns)
          THEN GustStation(d, col, st) ELSE RainStation(d, col, st))
    ELSE IF col = "Rh"
    THEN (IF "Temperature" \in Range(d.columns) /\ "Dew" \in Range(d.columns)
          THEN RhStation(d, col, st) ELSE RainStation(d, col, st))
    ELSE d

Tier3Station(d, col, st) ==
    IF col = "Rain" THEN RainStation(d, col, st)
    ELSE IF col = "Wind Gust Speed"
    THEN (IF "Wind Speed" \in Range(d.columns)
          THEN GustStation(d, col, st) ELSE d)
    ELSE IF col = "Rh"
    THEN (IF "Temperature" \in Range(d.columns) /\ "Dew" \in Range(d.columns)
          THEN RhStation(d, col, st) ELSE d)
    ELSE d

RECURSIVE Tier3(_, _, _)
Tier3(d, col, sts) ==
    IF sts = <<>> THEN d
    ELSE Tier3(Tier3Station(d, col, Head(sts)), col, Tail(sts))

\* (df[col] < lo) | (df[col] > hi) on one cell; comparisons with NaN are false
OutOfBounds(v, lo, hi) == ~IsNull(v) /\ (v < lo * Scale \/ v > hi * Scale)

\* mutant of TemperatureBounds: the flag is reset as it is for Dew
TemperatureBounds_ResetFlags(d, col) ==
    LET out(i) == OutOfBounds(d.data[col][i], TEMP_MIN, TEMP_MAX)
        nulled == [d EXCEPT !.data[col] =
                      [i \in 1..NRows(d) |-> IF out(i) THEN NaN ELSE @[i]]]
    IN  SetFlagWhere(nulled, col, out, Original)

\* bounds check of Temperature: out-of-bounds cells become NaN
TemperatureBounds(d, col) ==
    [d EXCEPT !.data[col] =
        [i \in 1..NRows(d) |->
            IF OutOfBounds(@[i], TEMP_MIN, TEMP_MAX) THEN NaN ELSE @[i]]]

\* bounds check of Rh: the column is clipped into [RH_MIN, RH_MAX]
RhBounds(d, col) ==
    [d EXCEPT !.data[col] =
        [i \in 1..NRows(d) |->
            IF IsNull(@[i]) THEN NaN
            ELSE Clip(@[i], RH_MIN * Scale, RH_MAX * Scale)]]

\* mutant of DewBounds: the flag is left alone as it is for Temperature
DewBounds_KeepFlags(d, col) ==
    [d EXCEPT !.data[col] =
        [i \in 1..NRows(d) |->
            IF OutOfBounds(@[i], DEW_MIN, DEW_MAX) THEN NaN ELSE @[i]]]

\* bounds check of Dew: out-of-bounds cells become NaN and their flag 0
DewBounds(d, col) ==
    LET out(i) == OutOfBounds(d.data[col][i], DEW_MIN, DEW_MAX)
        nulled == [d EXCEPT !.data[col] =
                      [i \in 1..NRows(d) |-> IF out(i) THEN NaN ELSE @[i]]]
    IN  SetFlagWhere(nulled, col, out, Original)

\* "Apply bounds checking"
ApplyBounds(d, col) ==
    IF col = "Temperature" THEN TemperatureBounds(d, col)
    ELSE IF col = "Rh" THEN RhBounds(d, col)
    ELSE IF col = "Dew" THEN DewBounds(d, col)
    ELSE d

----------------------------------------------------------------------------
(* impute_missing_values as a function of its argument: the steps above,   *)
(* column after column in the order of numeric_cols                        *)

\* one pass of the loop over numeric_cols
ImputeColumn(d, c) ==
    IF MissingCount(d, c) = 0 THEN d
    ELSE LET flagged == CreateFlags(d, c)
             sts == StationsToImpute(flagged, c)
         IN  ApplyBounds(Tier3(Tier2(Tier1(flagged, c, sts), c, sts), c, sts), c)

RECURSIVE ImputeColumns(_, _)
ImputeColumns(d, cols) ==
    IF cols = <<>> THEN d
    ELSE ImputeColumns(ImputeColumn(d, Head(cols)), Tail(cols))

impute_missing_values(d) ==
    LET sorted == SortValues(d)
    IN  ImputeColumns(sorted, NumericCols(sorted))

----------------------------------------------------------------------------
(* Input tables                                                            *)

\* most rows of a table drawn cell by cell
MaxRows == 5

\* longest run of missing cells in a long single-gap station
MaxGap == 7

StationA == "A"
StationB == "B"

\* the non-missing cells a column is drawn from: one plausible value and one
\* that is out of physical bounds where the column has bounds
PresentValues(col) ==
    IF col = "Temperature" THEN {1000, 5000}
    ELSE IF col = "Dew" THEN {500, 6000}
    ELSE IF col = "Rh" THEN {5000, 12000}
    ELSE IF col = "Rain" THEN {0, 600}
    ELSE IF col = "Wind Speed" THEN {500, 1500}
    ELSE IF col = "Wind Gust Speed" THEN {1000, 3000}
    ELSE {1000, 35000}

CellValues(col) == PresentValues(col) \cup {NaN}

\* spacing of a station's records in minutes, alternating tp[1], tp[2]
TimePatterns == {<<60, 60>>, <<60, 240>>}

LongSpacings == {<<60, 60>>, <<420, 420>>}

\* timestamp of the k-th record of a station
TimeAt(tp, k) == ((k - 1) \div 2) * (tp[1] + tp[2]) + ((k - 1) % 2) * tp[1]

\* the table in reverse row order
ReverseRows(d) ==
    LET n == NRows(d)
    IN  [columns |-> d.columns,
         station |-> [k \in 1..n |-> d.station[n + 1 - k]],
         Datetime_UTC |-> [k \in 1..n |-> d.Datetime_UTC[n + 1 - k]],
         data |-> [c \in DOMAIN d.data |-> [k \in 1..n |-> d.data[c][n + 1 - k]]]]

\* nA records of station A followed by nB records of station B
KeyColumns(nA, nB, tp) ==
    [station |-> [k \in 1..(nA + nB) |-> IF k <= nA THEN StationA ELSE StationB],
     Datetime_UTC |-> [k \in 1..(nA + nB) |->
                          IF k <= nA THEN TimeAt(tp, k) ELSE TimeAt(tp, k - nA)]]

\* one-variable table with freely drawn cells
SmallTable(col, nA, nB, cells, tp) ==
    [columns |-> <<col>>,
     station |-> KeyColumns(nA, nB, tp).station,
     Datetime_UTC |-> KeyColumns(nA, nB, tp).Datetime_UTC,
     data |-> [c \in {col} |-> cells]]

SmallCols == {"Temperature", "Dew", "Rh", "Rain"}

\* column orders of the long tables: the variable alone, or with the
\* variables its Tier 3 rule reads, before or after it
LongColumns ==
    {<<"Temperature">>, <<"Dew">>, <<"Rain">>, <<"Wind Speed">>,
     <<"Wind Direction">>, <<"Wind Gust Speed">>,
     <<"Wind Speed", "Wind Gust Speed">>, <<"Wind Gust Speed", "Wind Speed">>,
     <<"Rh", "Dew">>, <<"Rh", "Temperature">>,
     <<"Temperature", "Dew", "Rh">>, <<"Rh", "Temperature", "Dew">>}

\* the variable of a long table that carries the gap
GapColumn(columns) ==
    IF "Rh" \in Range(columns) THEN "Rh"
    ELSE IF "Wind Gust Speed" \in Range(columns) THEN "Wind Gust Speed"
    ELSE columns[1]

\* the one companion variable that may have a single missing cell
HoleColumn(columns) ==
    IF "Rh" \in Range(columns) THEN "Temperature" ELSE "Wind Speed"

\* first row of the gap of g cells in a station of n records
GapStart(kind, g, n) ==
    IF kind = "lead" THEN 1
    ELSE IF kind = "trail" THEN n - g + 1
    ELSE (n - g) \div 2 + 1

\* A station A of 4g+1 records (so that g missing cells stay under the 25%
\* threshold) whose gap variable misses g consecutive cells, optionally
\* followed by one record of station B that misses the gap variable.
\* hole is the row of A at which HoleColumn is missing (0: nowhere).
LongTable(columns, kind, g, v, tp, nB, hole) ==
    LET nA == 4 * g + 1
        first == GapStart(kind, g, nA)
        gapcol == GapColumn(columns)
        cell(c, k) ==
            IF c = gapcol
            THEN (IF k > nA \/ (k >= first /\ k < first + g) THEN NaN ELSE v)
            ELSE IF c = HoleColumn(columns) /\ k = hole THEN NaN
            ELSE Min(PresentValues(c))
    IN  [columns |-> columns,
         station |-> KeyColumns(nA, nB, tp).station,
         Datetime_UTC |-> KeyColumns(nA, nB, tp).Datetime_UTC,
         data |-> [c \in Range(columns) |-> [k \in 1..(nA + nB) |-> cell(c, k)]]]

InitSmall ==
    \E col \in SmallCols, n \in 0..MaxRows, tp \in TimePatterns :
        \E nA \in 0..n, cells \in [1..n -> CellValues(col)] :
            input = SmallTable(col, nA, n - nA, cells, tp)

\* the long table t with the gap variable of its last record (the record
\* of station B, when there is one) set to cell
WithLastCell(t, cell) ==
    SetCells(t, GapColumn(t.columns), <<NRows(t)>>, <<cell>>)

InitLong ==
    \E columns \in LongColumns, kind \in {"lead", "mid", "trail"},
       g \in 1..MaxGap, tp \in LongSpacings, nB \in 0..1, reversed \in BOOLEAN :
        \E v \in PresentValues(GapColumn(columns)), hole \in {0, 1, 4 * g + 1},
           known \in {b \in BOOLEAN : b => nB = 1} :
            LET t0 == LongTable(columns, kind, g, v, tp, nB, hole)
                t == IF known
                     THEN WithLastCell(t0, Max(PresentValues(GapColumn(columns))))
                     ELSE t0
            IN  input = IF reversed THEN ReverseRows(t) ELSE t

\* the variables of main are idle while impute_missing_values is examined
NotInMain ==
    /\ all_weather_data = <<>>
    /\ data_quality_report = <<>>
    /\ hourly_aggregated = <<>>
    /\ daily_aggregated = <<>>
    /\ raised = ""

\* the variables of circular_mean_degrees are idle
NotInCircularMean ==
    /\ angles = <<>>
    /\ shift = 0
    /\ mean_angle_deg = NaN
    /\ shifted_mean_deg = NaN

Init ==
    /\ InitSmall \/ InitLong
    /\ df = input
    /\ sorted_input = input
    /\ pc = "start"
    /\ numeric_cols = <<>>
    /\ ci = 0
    /\ stations_to_impute = <<>>
    /\ stations_to_skip = <<>>
    /\ NotInMain
    /\ NotInCircularMean

----------------------------------------------------------------------------
(* impute_missing_values, step by step                                     *)

\* the column being processed
col == numeric_cols[ci]

\* sort by station and time; list the columns to impute
Sort ==
    /\ pc = "start"
    /\ df' = SortValues(df)
    /\ sorted_input' = df'
    /\ numeric_cols' = NumericCols(df)
    /\ ci' = 1
    /\ pc' = "column"
    /\ UNCHANGED <<input, stations_to_impute, stations_to_skip>>
    /\ UNCHANGED <<mainVars, circVars>>

\* head of the loop over numeric_cols: a column without missing values is
\* passed over (continue); otherwise its flag column is created
BeginColumn ==
    /\ pc = "column"
    /\ ci <= Len(numeric_cols)
    /\ IF MissingCount(df, col) = 0
       THEN /\ ci' = ci + 1
            /\ UNCHANGED <<df, pc>>
       ELSE /\ df' = CreateFlags(df, col)
            /\ pc' = "eligibility"
            /\ UNCHANGED ci
    /\ UNCHANGED <<input, sorted_input, numeric_cols, stations_to_impute, stations_to_skip>>
    /\ UNCHANGED <<mainVars, circVars>>

\* per-station missing percentage against the threshold
Eligibility ==
    /\ pc = "eligibility"
    /\ stations_to_skip' = StationsToSkip(df, col)
    /\ stations_to_impute' = StationsToImpute(df, col)
    /\ pc' = "tier1"
    /\ UNCHANGED <<input, sorted_input, df, numeric_cols, ci>>
    /\ UNCHANGED <<mainVars, circVars>>

TierOne ==
    /\ pc = "tier1"
    /\ df' = Tier1(df, col, stations_to_impute)
    /\ pc' = "tier2"
    /\ UNCHANGED <<input, sorted_input, numeric_cols, ci, stations_to_impute, stations_to_skip>>
    /\ UNCHANGED <<mainVars, circVars>>

TierTwo ==
    /\ pc = "tier2"
    /\ df' = Tier2(df, col, stations_to_impute)
    /\ pc' = "tier3"
    /\ UNCHANGED <<input, sorted_input, numeric_cols, ci, stations_to_impute, stations_to_skip>>
    /\ UNCHANGED <<mainVars, circVars>>

TierThree ==
    /\ pc = "tier3"
    /\ df' = Tier3(df, col, stations_to_impute)
    /\ pc' = "bounds"
    /\ UNCHANGED <<input, sorted_input, numeric_cols, ci, stations_to_impute, stations_to_skip>>
    /\ UNCHANGED <<mainVars, circVars>>

\* bounds checking, then on to the next column
BoundsCheck ==
    /\ pc = "bounds"
    /\ df' = ApplyBounds(df, col)
    /\ ci' = ci + 1
    /\ pc' = "column"
    /\ UNCHANGED <<input, sorted_input, numeric_cols, stations_to_impute, stations_to_skip>>
    /\ UNCHANGED <<mainVars, circVars>>

\* return df
Return ==
    /\ pc = "column"
    /\ ci > Len(numeric_cols)
    /\ pc' = "done"
    /\ UNCHANGED <<input, sorted_input, df, numeric_cols, ci, stations_to_impute, stations_to_skip>>
    /\ UNCHANGED <<mainVars, circVars>>

Next ==
    \/ Sort
    \/ BeginColumn
    \/ Eligibility
    \/ TierOne
    \/ TierTwo
    \/ TierThree
    \/ BoundsCheck
    \/ Return

Spec == Init /\ [][Next]_vars

----------------------------------------------------------------------------
(* circular_mean_degrees                                                   *)
(*                                                                         *)
(* Angles are cells in hundredths of a degree.  Sines and cosines are      *)
(* fixed point in millionths, angles inside arctan2 in ten-thousandths of  *)
(* a degree.  Binary floating point leaves a rounding residue in sin_mean  *)
(* and cos_mean (np.sin(np.deg2rad(350)) + np.sin(np.deg2rad(10)) is       *)
(* about -5.6e-17, not 0).  The residue is far below the resolution of the *)
(* model, so it is carried apart as a pair of signs <<of sin_mean, of      *)
(* cos_mean>>, each of -1, 0, 1, and it decides the result only where the  *)
(* exact mean is zero.                                                     *)

\* one in the fixed point of sines and cosines
TrigUnit == 1000000

\* one degree in the fixed point of arctan2
AngleUnit == 10000

\* np.sin at 0, 10, ..., 90 degrees
SinTable ==
    <<0, 173648, 342020, 500000, 642788, 766044, 866025, 939693, 984808, 1000000>>

\* np.sin(np.deg2rad(a)) for a cell a on the grid of 10 degrees
SinDeg(a) ==
    LET d == (a \div Scale) % 360
    IN  IF d <= 90 THEN SinTable[d \div 10 + 1]
        ELSE IF d <= 180 THEN SinTable[(180 - d) \div 10 + 1]
        ELSE IF d <= 270 THEN -SinTable[(d - 180) \div 10 + 1]
        ELSE -SinTable[(360 - d) \div 10 + 1]

\* np.cos(np.deg2rad(a))
CosDeg(a) == SinDeg(a + 90 * Scale)

Abs(x) == IF x < 0 THEN -x ELSE x

\* a / n rounded to the nearest integer, symmetric about zero
RoundQuot(a, n) ==
    IF a >= 0 THEN (2 * a + n) \div (2 * n) ELSE -((2 * (-a) + n) \div (2 * n))

RECURSIVE SeqSum(_)
SeqSum(s) == IF s = <<>> THEN 0 ELSE s[1] + SeqSum(Tail(s))

\* Series.dropna
DropNa(s) == SelectSeq(s, LAMBDA v : ~IsNull(v))

\* arctan(2^-i) for i = 0, 1, ..., in ten-thousandths of a degree
AtanTable ==
    <<450000, 265651, 140362, 71250, 35763, 17899, 8952, 4476, 2238, 1119,
      560, 280, 140, 70, 35, 17, 9, 4>>

\* arctan2(y, x) for x > 0 by rotation towards the x axis (CORDIC)
RECURSIVE Cordic(_, _, _, _)
Cordic(x, y, z, i) ==
    IF i > Len(AtanTable) THEN z
    ELSE LET p == 2 ^ (i - 1)
         IN  IF y >= 0
             THEN Cordic(x + RoundQuot(y, p), y - RoundQuot(x, p), z + AtanTable[i], i + 1)
             ELSE Cordic(x - RoundQuot(y, p), y + RoundQuot(x, p), z - AtanTable[i], i + 1)

\* np.rad2deg(np.arctan2(y, x)), in (-180, 180] degrees
Arctan2Deg(y, x) ==
    IF y = 0 THEN (IF x >= 0 THEN 0 ELSE 180 * AngleUnit)
    ELSE IF x = 0 THEN (IF y > 0 THEN 90 * AngleUnit ELSE -90 * AngleUnit)
    ELSE LET k == (100 * TrigUnit) \div (IF Abs(x) > Abs(y) THEN Abs(x) ELSE Abs(y))
         IN  IF x > 0 THEN Cordic(k * x, k * y, 0, 1)
             ELSE IF y > 0 THEN Cordic(-k * x, -k * y, 0, 1) + 180 * AngleUnit
             ELSE Cordic(-k * x, -k * y, 0, 1) - 180 * AngleUnit

\* the signs a floating-point rounding residue can have
Residues == {<<rs, rc>> : rs \in {-1, 0, 1}, rc \in {-1, 0, 1}}

\* circular_mean_degrees(angles) under rounding residue <<rs, rc>>; the
\* result is in ten-thousandths of a degree
circular_mean_degrees(angles_in, residue) ==
    LET valid == DropNa(angles_in)
        n == Len(valid)
        sin_mean == RoundQuot(SeqSum([i \in 1..n |-> SinDeg(valid[i])]), n)
        cos_mean == RoundQuot(SeqSum([i \in 1..n |-> CosDeg(valid[i])]), n)
        \* sin(0) = 0 and cos(0) = 1 are exact: no residue from angles all 0
        exact == \A i \in 1..n : valid[i] = 0
        rs == IF exact THEN 0 ELSE residue[1]
        rc == IF exact THEN 0 ELSE residue[2]
        mean_angle == IF sin_mean = 0 /\ cos_mean = 0
                      THEN Arctan2Deg(rs, rc)
                      ELSE Arctan2Deg(sin_mean, cos_mean)
        \* mean_angle_deg < 0: also a result below zero by the residue alone
        negative == \/ mean_angle < 0
                    \/ sin_mean = 0 /\ cos_mean > 0 /\ rs < 0
        \* adding 360 to a result that small gives 360.0 exactly
    IN  IF n = 0 THEN NaN
        ELSE IF negative THEN mean_angle + 360 * AngleUnit
        ELSE mean_angle

\* most values in a call of circular_mean_degrees
MaxAngles == 3

\* wind directions in [0, 360), hundredths of a degree
AngleValues == {0, 1000, 9000, 17000, 18000, 19000, 35000}

Shifts == {1000, 9000, 18000}

\* angles + shift, kept in [0, 360)
ShiftAngles(s, k) ==
    [i \in DOMAIN s |-> IF IsNull(s[i]) THEN NaN ELSE (s[i] + k) % (360 * Scale)]

\* the variables of impute_missing_values are idle
NotInImpute ==
    /\ input = <<>>
    /\ sorted_input = <<>>
    /\ df = <<>>
    /\ numeric_cols = <<>>
    /\ ci = 0
    /\ stations_to_impute = <<>>
    /\ stations_to_skip = <<>>

InitCirc ==
    /\ \E n \in 0..MaxAngles : angles \in [1..n -> AngleValues \cup {NaN}]
    /\ shift \in Shifts
    /\ mean_angle_deg = NaN
    /\ shifted_mean_deg = NaN
    /\ pc = "angles"
    /\ NotInImpute
    /\ NotInMain

\* one call on angles
CircularMean ==
    /\ pc = "angles"
    /\ \E residue \in Residues :
          mean_angle_deg' = circular_mean_degrees(angles, residue)
    /\ pc' = "shifted"
    /\ UNCHANGED <<angles, shift, shifted_mean_deg, imputeVars, mainVars>>

\* one call on the shifted angles
CircularMeanShifted ==
    /\ pc = "shifted"
    /\ \E residue \in Residues :
          shifted_mean_deg' = circular_mean_degrees(ShiftAngles(angles, shift), residue)
    /\ pc' = "returned"
    /\ UNCHANGED <<angles, shift, mean_angle_deg, imputeVars, mainVars>>

NextCirc ==
    \/ CircularMean
    \/ CircularMeanShifted

SpecCirc == InitCirc /\ [][NextCirc]_vars

----------------------------------------------------------------------------
(* Tables with column types, as main hands them to the report and the      *)
(* aggregators: a table record with the further field dtypes, which maps   *)
(* every name of columns to "float", "int", "datetime" or "object".        *)
(* Datetime_UTC is in minutes since midnight UTC of day 0.                 *)

\* pd.api.types.is_numeric_dtype
IsNumericDtype(t) == t \in {"float", "int"}

\* df[c] = cells with dtype t (appended last when the column is new)
Assign(d, c, cells, t) ==
    [columns |-> IF c \in Range(d.columns) THEN d.columns ELSE Append(d.columns, c),
     station |-> d.station,
     Datetime_UTC |-> d.Datetime_UTC,
     data |-> [x \in (DOMAIN d.data) \cup {c} |-> IF x = c THEN cells ELSE d.data[x]],
     dtypes |-> [x \in (DOMAIN d.dtypes) \cup {c} |-> IF x = c THEN t ELSE d.dtypes[x]]]

\* the object columns become numeric; a cell that is not a number (here: a
\* date) becomes missing (pd.to_numeric(df[col], errors='coerce'))
ConvertObjectColumns(d) ==
    [d EXCEPT
        !.data = [c \in DOMAIN d.data |->
                     IF d.dtypes[c] = "object"
                     THEN [i \in 1..NRows(d) |-> NaN] ELSE d.data[c]],
        !.dtypes = [c \in DOMAIN d.dtypes |->
                     IF d.dtypes[c] = "object" THEN "float" ELSE d.dtypes[c]]]

\* the rows of d at which mask holds, in order (boolean indexing)
FilterRows(d, mask) ==
    LET rows == SelectSeq([i \in 1..NRows(d) |-> i], LAMBDA i : mask[i])
    IN  [columns |-> d.columns,
         station |-> [k \in DOMAIN rows |-> d.station[rows[k]]],
         Datetime_UTC |-> [k \in DOMAIN rows |-> d.Datetime_UTC[rows[k]]],
         data |-> [c \in DOMAIN d.data |-> [k \in DOMAIN rows |-> d.data[c][rows[k]]]],
         dtypes |-> d.dtypes]

\* df.drop(columns=[c for c in df.columns if c.endswith('_imputed')])
DropFlagColumns(d) ==
    LET kept == SelectSeq(d.columns, LAMBDA c : ~EndsWithImputed(c))
    IN  [columns |-> kept,
         station |-> d.station,
         Datetime_UTC |-> d.Datetime_UTC,
         data |-> [c \in Range(kept) |-> d.data[c]],
         dtypes |-> [c \in Range(kept) |-> d.dtypes[c]]]

\* str.lower, letter by letter
UpperLetters ==
    <<"A", "B", "C", "D", "E", "F", "G", "H", "I", "J", "K", "L", "M",
      "N", "O", "P", "Q", "R", "S", "T", "U", "V", "W", "X", "Y", "Z">>

LowerLetters ==
    <<"a", "b", "c", "d", "e", "f", "g", "h", "i", "j", "k", "l", "m",
      "n", "o", "p", "q", "r", "s", "t", "u", "v", "w", "x", "y", "z">>

LowerLetter(ch) ==
    IF \E k \in DOMAIN UpperLetters : UpperLetters[k] = ch
    THEN LowerLetters[CHOOSE k \in DOMAIN UpperLetters : UpperLetters[k] = ch]
    ELSE ch

RECURSIVE Lower(_)
Lower(c) ==
    IF c = "" THEN ""
    ELSE LowerLetter(SubSeq(c, 1, 1)) \o Lower(SubSeq(c, 2, Len(c)))

\* pattern in c
Contains(c, pattern) ==
    \E k \in 1..(Len(c) - Len(pattern) + 1) :
        SubSeq(c, k, k + Len(pattern) - 1) = pattern

\* the name tests with the rain test before the gust test
AggRuleByNameRainFirst(c) ==
    LET col_lower == Lower(c)
    IN  IF Contains(col_lower, "rain") \/ Contains(col_lower, "precipitation")
        THEN "sum"
        ELSE IF Contains(col_lower, "wind gust speed") \/ Contains(col_lower, "gust speed")
        THEN "max"
        ELSE IF Contains(col_lower, "wind direction") \/ c = "Wind Direction"
        THEN "circular_mean_degrees"
        ELSE "mean"

\* the aggregation rule of a column, by its name
AggRuleByName(c) ==
    LET col_lower == Lower(c)
    IN  IF Contains(col_lower, "wind gust speed") \/ Contains(col_lower, "gust speed")
        THEN "max"
        ELSE IF Contains(col_lower, "rain") \/ Contains(col_lower, "precipitation")
        THEN "sum"
        ELSE IF Contains(col_lower, "wind direction") \/ c = "Wind Direction"
        THEN "circular_mean_degrees"
        ELSE "mean"

\* the variables of the tables main is examined on
AggVariables ==
    <<"Temperature", "Rain", "Wind Gust Speed", "Wind Direction",
      "Rain Gust Speed", "Rain Wind Direction">>

\* the columns an aggregator can meet: the variables and the columns the
\* aggregators add
AggregatedColumns == AggVariables \o <<"minutes_from_hour", "date_label">>

\* AggRuleByName over AggregatedColumns, evaluated once
AggRules == Materialize([k \in DOMAIN AggregatedColumns |->
                AggRuleByName(AggregatedColumns[k])])

AggRule(c) ==
    IF \E k \in DOMAIN AggregatedColumns : AggregatedColumns[k] = c
    THEN AggRules[CHOOSE k \in DOMAIN AggregatedColumns : AggregatedColumns[k] = c]
    ELSE AggRuleByName(c)

\* num / den rounded to the nearest integer, halves to the even one
\* (a float quotient rounded to 2 decimals, in hundredths)
RoundHalfEven(num, den) ==
    LET q == num \div den
        r == num - q * den
    IN  IF 2 * r < den THEN q
        ELSE IF 2 * r > den THEN q + 1
        ELSE IF q % 2 = 0 THEN q ELSE q + 1

\* an aggregation whose sum of no value is missing (min_count = 1)
Aggregate_SumNeedsValue(rule, cells, residue) ==
    LET valid == DropNa(cells)
    IN  IF valid = <<>> THEN NaN
        ELSE IF rule = "sum" THEN SeqSum(valid)
        ELSE IF rule = "max" THEN Max(Range(valid))
        ELSE IF rule = "min" THEN Min(Range(valid))
        ELSE IF rule = "mean" THEN RoundHalfEven(SeqSum(valid), Len(valid))
        ELSE RoundHalfEven(circular_mean_degrees(valid, residue), AngleUnit \div Scale)

\* groupby(...)[col].agg(rule) on the cells of one group, then .round(2)
Aggregate(rule, cells, residue) ==
    LET valid == DropNa(cells)
    IN  IF rule = "sum" THEN SeqSum(valid)
        ELSE IF valid = <<>> THEN NaN
        ELSE IF rule = "max" THEN Max(Range(valid))
        ELSE IF rule = "min" THEN Min(Range(valid))
        ELSE IF rule = "mean" THEN RoundHalfEven(SeqSum(valid), Len(valid))
        ELSE RoundHalfEven(circular_mean_degrees(valid, residue), AngleUnit \div Scale)

\* the group keys of groupby(['station', label]): the distinct pairs
\* <<station, label>> of the rows, sorted
GroupKeys(d, label) ==
    LET keys == {<<d.station[i], label[i]>> : i \in 1..NRows(d)}
        before(a, b) == \/ StationRank(a[1]) < StationRank(b[1])
                        \/ a[1] = b[1] /\ a[2] < b[2]
    IN  Materialize([k \in 1..Cardinality(keys) |->
            CHOOSE a \in keys : Cardinality({b \in keys : before(b, a)}) = k - 1])

\* the cells of column c in the group of key
GroupCells(d, label, key, c) ==
    LET rows == SelectSeq([i \in 1..NRows(d) |-> i],
                          LAMBDA i : d.station[i] = key[1] /\ label[i] = key[2])
    IN  [k \in DOMAIN rows |-> d.data[c][rows[k]]]

----------------------------------------------------------------------------
(* create_hourly_aggregates and create_daily_aggregates.  Each works on    *)
(* the table object it is given: the operators return the table as the     *)
(* call leaves it (df), the exception raised ("" for none) and the         *)
(* aggregated table (result: columns are the columns after Datetime_UTC    *)
(* and station).                                                           *)

MinutesPerDay == 1440

\* the columns the hourly aggregation never aggregates
HourlyKeyColumns == {"station", "hour_label", "Datetime_UTC", "minutes_from_hour"}

\* dt.floor('h')
FloorHour(t) == (t \div MinutesPerHour) * MinutesPerHour

\* a window that leaves out the record at exactly +30 minutes
InWindowUpTo29(m) == m >= -30 * Scale /\ m < 30 * Scale

\* the window test on minutes_from_hour (in hundredths of a minute)
InWindow(m) == m >= -30 * Scale /\ m <= 30 * Scale

create_hourly_aggregates(d, residue) ==
    LET d1 == ConvertObjectColumns(d)
        hour_label == Materialize([i \in 1..NRows(d) |->
                          FloorHour(d.Datetime_UTC[i])])
        d2 == Assign(d1, "hour_label", hour_label, "datetime")
        minutes_from_hour == Materialize([i \in 1..NRows(d) |->
                                 (d.Datetime_UTC[i] - hour_label[i]) * Scale])
        d3 == Assign(d2, "minutes_from_hour", minutes_from_hour, "float")
        hourly_data == DropFlagColumns(FilterRows(d3,
                           [i \in 1..NRows(d) |-> InWindow(minutes_from_hour[i])]))
        agg_dict == SelectSeq(hourly_data.columns,
                        LAMBDA c : /\ c \notin HourlyKeyColumns
                                   /\ IsNumericDtype(hourly_data.dtypes[c]))
        rules == Materialize([j \in DOMAIN agg_dict |-> AggRule(agg_dict[j])])
        label == Materialize(hourly_data.data["hour_label"])
        keys == GroupKeys(hourly_data, label)
        hourly_aggregated_ ==
            [columns |-> agg_dict,
             station |-> [k \in DOMAIN keys |-> keys[k][1]],
             Datetime_UTC |-> [k \in DOMAIN keys |-> keys[k][2]],
             data |-> [c \in Range(agg_dict) |->
                         LET rule == rules[CHOOSE j \in DOMAIN agg_dict : agg_dict[j] = c]
                         IN  [k \in DOMAIN keys |->
                                 Aggregate(rule,
                                           GroupCells(hourly_data, label, keys[k], c),
                                           residue)]]]
    IN  \* grouped.agg({}) has nothing to concatenate
        IF agg_dict = <<>>
        THEN [df |-> d3, raised |-> "ValueError", result |-> <<>>]
        ELSE [df |-> d3, raised |-> "", result |-> hourly_aggregated_]

\* aggregations that put the sum where the mean belongs
DailyAggregationsSum(c) ==
    LET rule == AggRule(c)
    IN  IF rule = "mean"
        THEN <<(<<c, "min", c \o "_min">>), (<<c, "max", c \o "_max">>),
               (<<c, "sum", c \o "_mean">>)>>
        ELSE <<(<<c, rule, c>>)>>

\* the aggregations of one column: <<source column, function, result name>>
DailyAggregations(c) ==
    LET rule == AggRule(c)
    IN  IF rule = "mean"
        THEN <<(<<c, "min", c \o "_min">>), (<<c, "max", c \o "_max">>),
               (<<c, "mean", c \o "_mean">>)>>
        ELSE <<(<<c, rule, c>>)>>

RECURSIVE AggList(_)
AggList(cols) ==
    IF cols = <<>> THEN <<>>
    ELSE DailyAggregations(cols[1]) \o AggList(Tail(cols))

\* the columns the daily aggregation never aggregates
DailyKeyColumns == {"station", "date_label", "Datetime_UTC"}

create_daily_aggregates(d, residue) ==
    LET d1 == ConvertObjectColumns(d)
        date_label == Materialize([i \in 1..NRows(d) |->
                          d.Datetime_UTC[i] \div MinutesPerDay])
        d2 == Assign(d1, "date_label", date_label, "object")
        df_for_agg == DropFlagColumns(d2)
        agg_list == Materialize(AggList(SelectSeq(df_for_agg.columns,
                        LAMBDA c : /\ c \notin DailyKeyColumns
                                   /\ IsNumericDtype(df_for_agg.dtypes[c]))))
        keys == GroupKeys(df_for_agg, date_label)
        daily_aggregated_ ==
            [columns |-> [k \in DOMAIN agg_list |-> agg_list[k][3]],
             station |-> [k \in DOMAIN keys |-> keys[k][1]],
             Datetime_UTC |-> [k \in DOMAIN keys |-> keys[k][2] * MinutesPerDay],
             data |-> [name \in {agg_list[j][3] : j \in DOMAIN agg_list} |->
                         LET a == agg_list[CHOOSE j \in DOMAIN agg_list :
                                              agg_list[j][3] = name]
                         IN  [k \in DOMAIN keys |->
                                 Aggregate(a[2],
                                           GroupCells(df_for_agg, date_label, keys[k], a[1]),
                                           residue)]]]
    IN  \* pd.concat([]) has nothing to concatenate
        IF agg_list = <<>>
        THEN [df |-> d2, raised |-> "ValueError", result |-> <<>>]
        ELSE [df |-> d2, raised |-> "", result |-> daily_aggregated_]

----------------------------------------------------------------------------
(* create_data_quality_csv.  The report is the sequence of its rows.       *)

\* valid_data.quantile(q / 4) times 4 (linear interpolation between the
\* two nearest of the sorted values)
Quantile4(sorted, q) ==
    LET n == Len(sorted)
        pos4 == (n - 1) * q
        lo == pos4 \div 4 + 1
        hi == IF lo < n THEN lo + 1 ELSE n
    IN  4 * sorted[lo] + (pos4 % 4) * (sorted[hi] - sorted[lo])

\* round(part / total * 100, 2) if total > 0 else 0
Percent(part, total) ==
    IF total > 0 THEN RoundHalfEven(part * 100 * Scale, total) ELSE 0

\* (station_df[flag_col] == tag).sum() over the rows
FlagCount(d, c, rows, tag) ==
    Cardinality({i \in rows : d.data[FlagCol(c)][i] = tag})

\* one row of the report: column c over the rows of d listed in rows
QualityRow(d, station, c, rows) ==
    LET total_rows == Cardinality(rows)
        missing_count == Cardinality({i \in rows : IsNull(d.data[c][i])})
        flagged == FlagCol(c) \in Range(d.columns)
        imputed_0_original == IF flagged THEN FlagCount(d, c, rows, 0)
                              ELSE total_rows - missing_count
        imputed_1_interpolated == IF flagged THEN FlagCount(d, c, rows, 1) ELSE 0
        imputed_2_forward_back == IF flagged THEN FlagCount(d, c, rows, 2) ELSE 0
        imputed_3_calculated == IF flagged THEN FlagCount(d, c, rows, 3) ELSE 0
        total_imputed == imputed_1_interpolated + imputed_2_forward_back
                            + imputed_3_calculated
        valid_data == SortSeq(DropNa([i \in 1..NRows(d) |->
                                  IF i \in rows THEN d.data[c][i] ELSE NaN]),
                              LAMBDA a, b : a < b)
        some == Len(valid_data) > 0
    IN  [station |-> station,
         column |-> c,
         total_rows |-> total_rows,
         missing_count |-> missing_count,
         missing_percent |-> Percent(missing_count, total_rows),
         original_data_count |-> imputed_0_original,
         interpolated_count |-> imputed_1_interpolated,
         forward_backward_filled_count |-> imputed_2_forward_back,
         calculated_count |-> imputed_3_calculated,
         total_imputed_count |-> total_imputed,
         imputation_percent |-> Percent(total_imputed, total_rows),
         mean |-> IF some THEN RoundHalfEven(SeqSum(valid_data), Len(valid_data)) ELSE NaN,
         median |-> IF some THEN RoundHalfEven(Quantile4(valid_data, 2), 4) ELSE NaN,
         min |-> IF some THEN valid_data[1] ELSE NaN,
         max |-> IF some THEN valid_data[Len(valid_data)] ELSE NaN,
         q1 |-> IF some THEN RoundHalfEven(Quantile4(valid_data, 1), 4) ELSE NaN,
         q3 |-> IF some THEN RoundHalfEven(Quantile4(valid_data, 3), 4) ELSE NaN,
         iqr |-> IF some
                 THEN RoundHalfEven(Quantile4(valid_data, 3) - Quantile4(valid_data, 1), 4)
                 ELSE NaN]

\* sorted(df['station'].unique())
SortedStations(d) ==
    SortSeq(Unique(d.station), LAMBDA a, b : StationRank(a) < StationRank(b))

RECURSIVE Flatten(_)
Flatten(ss) == IF ss = <<>> THEN <<>> ELSE ss[1] \o Flatten(Tail(ss))

\* a summary over the records of the first station only
SummaryScopeFirstStation(d) ==
    {i \in 1..NRows(d) : d.station[i] = d.station[1]}

\* the records a summary row is computed over: df itself
SummaryScope(d) == 1..NRows(d)

\* the report of d: the exception raised ("" for none) and the rows
QualityReport(d) ==
    LET data_cols == SelectSeq(d.columns, LAMBDA c : ~EndsWithImputed(c))
        stations == SortedStations(d)
        report_rows ==
            Flatten([s \in DOMAIN stations |->
                [k \in DOMAIN data_cols |->
                    QualityRow(d, stations[s], data_cols[k],
                               {i \in 1..NRows(d) : d.station[i] = stations[s]})]])
        summary_rows ==
            [k \in DOMAIN data_cols |->
                QualityRow(d, "ALL_STATIONS", data_cols[k], SummaryScope(d))]
        \* np.isnan of the mean of a datetime column, and the mean of a
        \* column of dates, raise TypeError
        untyped == \E k \in DOMAIN data_cols :
                      /\ ~IsNumericDtype(d.dtypes[data_cols[k]])
                      /\ \E i \in 1..NRows(d) : ~IsNull(d.data[data_cols[k]][i])
    IN  IF untyped
        THEN [raised |-> "TypeError", result |-> <<>>]
        ELSE [raised |-> "", result |-> report_rows \o summary_rows]

\* a report that drops the flag columns of the table it is given
create_data_quality_csv_dropping(d) ==
    [df |-> DropFlagColumns(d),
     raised |-> QualityReport(d).raised,
     result |-> QualityReport(d).result]

\* the call: df is the table as the call leaves it, which is as it was
create_data_quality_csv(d) ==
    [df |-> d,
     raised |-> QualityReport(d).raised,
     result |-> QualityReport(d).result]

----------------------------------------------------------------------------
(* main, from the imputed table on: the quality report and the two         *)
(* aggregators, each called on all_weather_data.  main calls the report,   *)
(* then the hourly, then the daily aggregator; here the report may be      *)
(* called any number of times before the aggregators, and the aggregators  *)
(* once each in either order.                                              *)

\* most records of an imputed table
MaxAggRows == 3

\* <<station, Datetime_UTC>> of the records a table is drawn from, sorted:
\* on the hour, 30 and 31 minutes past it, the next hour, the next day
AggKeys ==
    <<(<<StationA, 0>>), (<<StationA, 30>>), (<<StationA, 31>>),
      (<<StationA, 60>>), (<<StationA, 1470>>), (<<StationB, 0>>)>>

\* the non-missing cells of a variable
AggValues(c) ==
    IF c = "Temperature" THEN {1000, 1001}
    ELSE IF c \in {"Rain", "Rain Gust Speed"} THEN {20, 50}
    ELSE IF c = "Wind Gust Speed" THEN {1000, 3000}
    ELSE {1000, 35000}

\* the cells of a variable: the two made-up names, which only serve the
\* order of the name tests, come without missing cells
AggCells(c) ==
    IF c \in {"Rain Gust Speed", "Rain Wind Direction"}
    THEN AggValues(c) ELSE AggValues(c) \cup {NaN}

\* provenance tags of a flagged column, row by row
FlagPatterns == {<<0, 0, 0, 0>>, <<1, 2, 3, 0>>}

\* the records of AggKeys listed in rows (ascending), with variable c
\* holding cells; second is "" or the name of a second column, which is a
\* flag column with tags pattern or a Rain column
AggTable(rows, c, cells, second, pattern) ==
    LET n == Len(rows)
        cols == IF second = "" THEN <<c>> ELSE <<c, second>>
    IN  [columns |-> cols,
         station |-> [k \in 1..n |-> AggKeys[rows[k]][1]],
         Datetime_UTC |-> [k \in 1..n |-> AggKeys[rows[k]][2]],
         data |-> [x \in Range(cols) |->
                      IF x = c THEN cells
                      ELSE IF EndsWithImputed(x) THEN [k \in 1..n |-> pattern[k]]
                      ELSE [k \in 1..n |-> 20]],
         dtypes |-> [x \in Range(cols) |->
                      IF EndsWithImputed(x) THEN "int" ELSE "float"]]

\* a table without any variable column
KeysOnlyTable(rows) ==
    [columns |-> <<>>,
     station |-> [k \in DOMAIN rows |-> AggKeys[rows[k]][1]],
     Datetime_UTC |-> [k \in DOMAIN rows |-> AggKeys[rows[k]][2]],
     data |-> <<>>,
     dtypes |-> <<>>]

\* the ascending sequence of the members of S
Ascending(S) == SortSeq(Materialize([k \in 1..Cardinality(S) |->
                    CHOOSE i \in S : Cardinality({j \in S : j < i}) = k - 1]),
                    LAMBDA a, b : a < b)

InitMain ==
    /\ \E S \in SUBSET (DOMAIN AggKeys) :
          /\ Cardinality(S) <= MaxAggRows
          /\ \/ all_weather_data = KeysOnlyTable(Ascending(S))
             \/ \E c \in Range(AggVariables) :
                   \E cells \in [1..Cardinality(S) -> AggCells(c)] :
                       \/ all_weather_data = AggTable(Ascending(S), c, cells, "", <<>>)
                       \/ /\ c = "Temperature"
                          /\ \/ \E pattern \in FlagPatterns :
                                   all_weather_data =
                                       AggTable(Ascending(S), c, cells, FlagCol(c), pattern)
                             \/ all_weather_data =
                                   AggTable(Ascending(S), c, cells, "Rain", <<>>)
    /\ data_quality_report = <<>>
    /\ hourly_aggregated = <<>>
    /\ daily_aggregated = <<>>
    /\ raised = ""
    /\ pc = "imputed"
    /\ NotInImpute
    /\ NotInCircularMean

\* the rounding residues that can show in the aggregates of d: those of
\* circular_mean_degrees, where a column is aggregated by it
ResiduesOf(d) ==
    IF \E c \in Range(d.columns) :
          /\ IsNumericDtype(d.dtypes[c])
          /\ ~EndsWithImputed(c)
          /\ AggRule(c) = "circular_mean_degrees"
    THEN Residues ELSE {<<0, 0>>}

\* data_quality_report = create_data_quality_csv(all_weather_data)
CreateDataQualityCsv ==
    /\ pc \in {"imputed", "quality"}
    /\ LET call == create_data_quality_csv(all_weather_data)
       IN  /\ all_weather_data' = call.df
           /\ IF call.raised # ""
              THEN /\ raised' = call.raised
                   /\ pc' = "failed"
                   /\ UNCHANGED data_quality_report
              ELSE /\ data_quality_report' = call.result
                   /\ pc' = "quality"
                   /\ UNCHANGED raised
    /\ UNCHANGED <<hourly_aggregated, daily_aggregated>>
    /\ UNCHANGED <<imputeVars, circVars>>

\* hourly_aggregated = create_hourly_aggregates(all_weather_data)
CreateHourlyAggregates ==
    /\ pc \in {"imputed", "quality", "hourly", "daily"}
    /\ "hour_label" \notin Range(all_weather_data.columns)
    /\ \E residue \in ResiduesOf(all_weather_data) :
          LET call == create_hourly_aggregates(all_weather_data, residue)
          IN  /\ all_weather_data' = call.df
              /\ IF call.raised # ""
                 THEN /\ raised' = call.raised
                      /\ pc' = "failed"
                      /\ UNCHANGED hourly_aggregated
                 ELSE /\ hourly_aggregated' = call.result
                      /\ pc' = "hourly"
                      /\ UNCHANGED raised
    /\ UNCHANGED <<data_quality_report, daily_aggregated>>
    /\ UNCHANGED <<imputeVars, circVars>>

\* daily_aggregated = create_daily_aggregates(all_weather_data)
CreateDailyAggregates ==
    /\ pc \in {"imputed", "quality", "hourly", "daily"}
    /\ "date_label" \notin Range(all_weather_data.columns)
    /\ \E residue \in ResiduesOf(all_weather_data) :
          LET call == create_daily_aggregates(all_weather_data, residue)
          IN  /\ all_weather_data' = call.df
              /\ IF call.raised # ""
                 THEN /\ raised' = call.raised
                      /\ pc' = "failed"
                      /\ UNCHANGED daily_aggregated
                 ELSE /\ daily_aggregated' = call.result
                      /\ pc' = "daily"
                      /\ UNCHANGED raised
    /\ UNCHANGED <<data_quality_report, hourly_aggregated>>
    /\ UNCHANGED <<imputeVars, circVars>>

NextMain ==
    \/ CreateDataQualityCsv
    \/ CreateHourlyAggregates
    \/ CreateDailyAggregates

SpecMain == InitMain /\ [][NextMain]_vars

----------------------------------------------------------------------------
(* Vocabulary of the properties                                            *)

\* column c of the input table, in the row order of df (sorted)
InputCells(c) == sorted_input.data[c]

\* rows of station st in df
RowsOf(st) == {i \in 1..NRows(df) : df.station[i] = st}

\* column c has a provenance column in df
HasFlags(c) == FlagCol(c) \in Range(df.columns)

\* the columns whose processing is complete
Processed == {numeric_cols[k] : k \in 1..(IF pc = "done" THEN Len(numeric_cols)
                                          ELSE IF pc = "start" THEN 0
                                          ELSE ci - 1)}

\* the stations at or over the threshold for a column whose input cells
\* are orig: 100 * missing >= 25 * total, over the station's own records
InputSkipped(orig) ==
    {st \in Range(df.station) :
        100 * Cardinality({i \in RowsOf(st) : IsNull(orig[i])})
            >= 25 * Cardinality(RowsOf(st))}

\* the current column is past its tiers 1-3 and before its bounds step
AfterTier3 == pc = "bounds"

\* what the bounds step makes of a cell v of column c
BoundedCell(c, v) ==
    IF IsNull(v) THEN NaN
    ELSE IF c = "Temperature" THEN (IF v < -4000 \/ v > 4000 THEN NaN ELSE v)
    ELSE IF c = "Dew" THEN (IF v < -6000 \/ v > 5000 THEN NaN ELSE v)
    ELSE IF c = "Rh" THEN (IF v < 0 THEN 0 ELSE IF v > 10000 THEN 10000 ELSE v)
    ELSE v

----------------------------------------------------------------------------
(* C1: after impute_missing_values, for every record and every variable    *)
(* with a provenance column, a tag other than Original (0) implies that    *)
(* the value is non-missing -- also for skipped stations and for gaps no   *)
(* tier could fill.                                                        *)
C1_TagImpliesValue ==
    pc = "done" =>
        \A k \in DOMAIN numeric_cols :
            LET c == numeric_cols[k]
            IN  HasFlags(c) =>
                    \A i \in 1..NRows(df) :
                        df.data[FlagCol(c)][i] # Original => ~IsNull(df.data[c][i])

(* C2: for a (station, variable) pair at or over the threshold, tiers 1-3  *)
(* leave every value as it was in the input, and after the whole function  *)
(* the value differs from the input only by the bounds step.               *)
C2_SkipPairUntouched ==
    /\ (pc \in {"tier1", "tier2", "tier3", "bounds"}) =>
          LET orig == InputCells(col)
              skipped == InputSkipped(orig)
          IN  \A i \in 1..NRows(df) :
                  df.station[i] \in skipped => df.data[col][i] = orig[i]
    /\ \A c \in Processed :
          LET orig == InputCells(c)
              skipped == InputSkipped(orig)
          IN  \A i \in 1..NRows(df) :
                  df.station[i] \in skipped =>
                      df.data[c][i] = BoundedCell(c, orig[i])

\* a skipped station keeps a missing cell while another station of the same
\* table had one filled
C2_Witness ==
    /\ AfterTier3
    /\ LET orig == InputCells(col)
           skipped == InputSkipped(orig)
       IN  /\ \E i \in 1..NRows(df) :
                 /\ df.station[i] \in skipped
                 /\ IsNull(orig[i])
                 /\ IsNull(df.data[col][i])
           /\ \E j \in 1..NRows(df) :
                 /\ df.station[j] \notin skipped
                 /\ IsNull(orig[j])
                 /\ ~IsNull(df.data[col][j])

C4_RainZeroDerived ==
    (pc = "done" /\ "Rain" \in Range(numeric_cols)) =>
        LET orig == InputCells("Rain")
            skipped == InputSkipped(orig)
        IN  \A i \in 1..NRows(df) :
                IsNull(orig[i]) =>
                    IF df.station[i] \in skipped
                    THEN IsNull(df.data["Rain"][i])
                    ELSE /\ df.data["Rain"][i] = 0
                         /\ df.data[FlagCol("Rain")][i] = Derived

(* C5: each of Tier 1, Tier 2 and Tier 3 writes only where the variable    *)
(* was missing immediately before that tier ran: a value present when the  *)
(* tier starts is the same when it ends.                                   *)
C5_TiersWriteOnlyMissing ==
    [][(pc \in {"tier1", "tier2", "tier3"}) =>
          \A i \in 1..NRows(df) :
              ~IsNull(df.data[col][i]) => df'.data[col][i] = df.data[col][i]]_vars

\* an Rh column in which each of the three tiers has filled a cell
C5_Witness ==
    /\ AfterTier3
    /\ col = "Rh"
    /\ LET orig == InputCells(col)
           filled(tag) == \E i \in 1..NRows(df) :
                              /\ IsNull(orig[i])
                              /\ ~IsNull(df.data[col][i])
                              /\ df.data[FlagCol(col)][i] = tag
       IN  filled(Interpolated) /\ filled(NeighborFilled) /\ filled(Derived)

(* C6: Tier 1 fills a missing value only if it has a known value on both   *)
(* sides in its station's time-sorted records and the elapsed time to each *)
(* of the two is within INTERPOLATE_LIMIT_HOURS (3 hours).                 *)
C6_Tier1WithinHoursBothSides ==
    pc = "tier2" =>
        LET orig == InputCells(col)
            limit == INTERPOLATE_LIMIT_HOURS * MinutesPerHour
            known(i, j) == /\ df.station[j] = df.station[i]
                           /\ ~IsNull(orig[j])
        IN  \A i \in 1..NRows(df) :
                (IsNull(orig[i]) /\ ~IsNull(df.data[col][i])) =>
                    /\ \E p \in 1..(i - 1) :
                          /\ known(i, p)
                          /\ df.Datetime_UTC[i] - df.Datetime_UTC[p] <= limit
                    /\ \E q \in (i + 1)..NRows(df) :
                          /\ known(i, q)
                          /\ df.Datetime_UTC[q] - df.Datetime_UTC[i] <= limit

\* nearest row before i, of i's station, whose cell of the current column is
\* known in df (0 when there is none); likewise after i
KnownBefore(i) ==
    LET K == {p \in 1..(i - 1) :
                 df.station[p] = df.station[i] /\ ~IsNull(df.data[col][p])}
    IN  IF K = {} THEN 0 ELSE Max(K)

KnownAfter(i) ==
    LET K == {q \in (i + 1)..NRows(df) :
                 df.station[q] = df.station[i] /\ ~IsNull(df.data[col][q])}
    IN  IF K = {} THEN 0 ELSE Min(K)

(* C7: Tier 2, for an allow-listed variable at an impute station, applies  *)
(* forward fill first and backward fill second under elapsed-time limits:  *)
(* a missing value at most 6 hours after the last known value copies it,   *)
(* otherwise one at most 3 hours before the next known value copies that,  *)
(* and any other missing value stays missing.                              *)
C7_Tier2WithinHours ==
    [][(pc = "tier2" /\ col \in PersistenceCols) =>
          \A i \in 1..NRows(df) :
              (IsNull(df.data[col][i]) /\ df.station[i] \in Range(stations_to_impute)) =>
                  LET p == KnownBefore(i)
                      q == KnownAfter(i)
                  IN  IF p # 0 /\ df.Datetime_UTC[i] - df.Datetime_UTC[p]
                                     <= FORWARD_FILL_LIMIT_HOURS * MinutesPerHour
                      THEN df'.data[col][i] = df.data[col][p]
                      ELSE IF q # 0 /\ df.Datetime_UTC[q] - df.Datetime_UTC[i]
                                          <= BACKWARD_FILL_LIMIT_HOURS * MinutesPerHour
                      THEN df'.data[col][i] = df.data[col][q]
                      ELSE IsNull(df'.data[col][i])]_vars

(* C8: bounds validation is applied for every input table: after           *)
(* impute_missing_values no non-missing Temperature lies outside           *)
(* [TEMP_MIN, TEMP_MAX], no non-missing Dew outside [DEW_MIN, DEW_MAX],    *)
(* and every non-missing Rh lies in [0, 100].                              *)
C8_BoundsAlwaysApplied ==
    pc = "done" =>
        \A c \in Range(numeric_cols) \cap {"Temperature", "Dew", "Rh"} :
            \A i \in 1..NRows(df) :
                LET v == df.data[c][i]
                    lo == IF c = "Temperature" THEN TEMP_MIN
                          ELSE IF c = "Dew" THEN DEW_MIN ELSE 0
                    hi == IF c = "Temperature" THEN TEMP_MAX
                          ELSE IF c = "Dew" THEN DEW_MAX ELSE 100
                IN  IsNull(v) \/ (lo * Scale <= v /\ v <= hi * Scale)

(* C9: when bounds validation rejects a Dew value (outside                 *)
(* [DEW_MIN, DEW_MAX]) the value becomes missing and its provenance tag    *)
(* becomes Original (0), whatever the tag was.                             *)
C9_DewRejectResetsTag ==
    [][(pc = "bounds" /\ col = "Dew") =>
          \A i \in 1..NRows(df) :
              LET v == df.data[col][i]
              IN  (~IsNull(v) /\ (v < DEW_MIN * Scale \/ v > DEW_MAX * Scale)) =>
                      /\ IsNull(df'.data[col][i])
                      /\ df'.data[FlagCol(col)][i] = Original]_vars

\* a Dew cell that was missing in the input, was filled by a tier (tag 1 or
\* 2) with an out-of-bounds value, and is missing again with tag 0
C9_Witness ==
    /\ pc = "done"
    /\ "Dew" \in Range(numeric_cols)
    /\ HasFlags("Dew")
    /\ \E i \in 1..NRows(df) :
          /\ IsNull(InputCells("Dew")[i])
          /\ IsNull(df.data["Dew"][i])
          /\ df.data[FlagCol("Dew")][i] = Original

(* C10: bounds validation of Temperature and of Rh leaves every provenance *)
(* tag unchanged; an out-of-bounds Temperature becomes missing, an Rh      *)
(* value is clipped into [0, 100], and Rh clipping neither turns a value   *)
(* into missing nor changes an in-range value.                             *)
C10_TemperatureRhBoundsKeepTags ==
    [][(pc = "bounds" /\ col \in {"Temperature", "Rh"}) =>
          /\ df'.data[FlagCol(col)] = df.data[FlagCol(col)]
          /\ \A i \in 1..NRows(df) :
                LET v == df.data[col][i]
                    w == df'.data[col][i]
                IN  IF col = "Temperature"
                    THEN w = (IF ~IsNull(v) /\ (v < TEMP_MIN * Scale \/ v > TEMP_MAX * Scale)
                              THEN NaN ELSE v)
                    ELSE /\ IsNull(w) <=> IsNull(v)
                         /\ (~IsNull(v) /\ 0 <= v /\ v <= 100 * Scale) => w = v
                         /\ (~IsNull(v) /\ v < 0) => w = 0
                         /\ (~IsNull(v) /\ v > 100 * Scale) => w = 100 * Scale]_vars

\* a Temperature cell missing in the input, at a station whose four other
\* cells are all out of bounds: Tier 1 fills it (tag Interpolated), the
\* bounds step makes it missing again and the tag stays Interpolated
C10_Witness ==
    /\ pc = "done"
    /\ numeric_cols = <<"Temperature">>
    /\ HasFlags("Temperature")
    /\ \E i \in 1..NRows(df) :
          LET rows == RowsOf(df.station[i])
              orig == InputCells("Temperature")
          IN  /\ Cardinality(rows) = 5
              /\ IsNull(orig[i])
              /\ \A j \in rows \ {i} : orig[j] > TEMP_MAX * Scale
              /\ IsNull(df.data["Temperature"][i])
              /\ df.data[FlagCol("Temperature")][i] = Interpolated
              /\ \A j \in rows \ {i} :
                    /\ IsNull(df.data["Temperature"][j])
                    /\ df.data[FlagCol("Temperature")][j] = Original

----------------------------------------------------------------------------
(* C11: the table returned by impute_missing_values has one provenance     *)
(* column <variable>_imputed for every imputable variable of the input     *)
(* (every column other than timestamp, station and existing _imputed       *)
(* columns), and every tag in those columns is one of 0, 1, 2, 3.          *)
C11_FlagColumnPerVariable ==
    pc = "done" =>
        \A k \in DOMAIN input.columns :
            LET c == input.columns[k]
            IN  ~EndsWithImputed(c) =>
                    /\ FlagCol(c) \in Range(df.columns)
                    /\ \A i \in 1..NRows(df) :
                          df.data[FlagCol(c)][i] \in
                              {Original, Interpolated, NeighborFilled, Derived}

----------------------------------------------------------------------------
\* distance of two angles on the circle, ten-thousandths of a degree
CircDist(a, b) ==
    LET d == (a - b) % (360 * AngleUnit)
    IN  IF d > 180 * AngleUnit THEN 360 * AngleUnit - d ELSE d

(* C17: circular_mean_degrees returns no value for an empty set and for a  *)
(* set whose values are all missing; for a non-empty set it returns a      *)
(* value in [0, 360) that is rotation-covariant (the mean of the shifted   *)
(* set is the mean plus the shift modulo 360, within 0.02 degrees), and    *)
(* the mean of {350, 10} is 0, not 180.                                    *)
C17_CircularMeanCovariant ==
    pc = "returned" =>
        IF DropNa(angles) = <<>>
        THEN IsNull(mean_angle_deg) /\ IsNull(shifted_mean_deg)
        ELSE /\ 0 <= mean_angle_deg /\ mean_angle_deg < 360 * AngleUnit
             /\ 0 <= shifted_mean_deg /\ shifted_mean_deg < 360 * AngleUnit
             /\ CircDist(shifted_mean_deg,
                         mean_angle_deg + shift * (AngleUnit \div Scale)) <= 200
             /\ angles = <<35000, 1000>> => mean_angle_deg <= 200

----------------------------------------------------------------------------
(* Vocabulary of the properties of the aggregators and the report          *)

\* the columns of d that are observation variables: neither flag columns
\* nor columns an aggregator adds
ObservationVariables(d) ==
    SelectSeq(d.columns,
              LAMBDA c : /\ ~EndsWithImputed(c)
                         /\ c \notin {"hour_label", "minutes_from_hour", "date_label"})

\* the cells of column c at the rows of d listed in rows, in row order
CellsAt(d, c, rows) ==
    LET idx == SelectSeq([i \in 1..NRows(d) |-> i], LAMBDA i : i \in rows)
    IN  [k \in DOMAIN idx |-> d.data[c][idx[k]]]

\* the records of station s at most 30 minutes after the hour h
HourBucket(d, s, h) ==
    {i \in 1..NRows(d) : /\ d.station[i] = s
                          /\ d.Datetime_UTC[i] >= h
                          /\ d.Datetime_UTC[i] <= h + 30}

\* C12: the hourly table has one row per station and hour with a record at
\* most 30 minutes past that hour, and each value of an observation
\* variable in it is aggregated from exactly those records: a record at +30
\* counts for its hour, a record further past the hour counts for no hour
C12_HourlyBuckets ==
    pc = "hourly" =>
        LET d == all_weather_data
            h == hourly_aggregated
        IN  /\ {<<h.station[k], h.Datetime_UTC[k]>> : k \in DOMAIN h.station}
                  = {<<d.station[i], d.Datetime_UTC[i] - (d.Datetime_UTC[i] % MinutesPerHour)>> :
                        i \in {j \in 1..NRows(d) : d.Datetime_UTC[j] % MinutesPerHour <= 30}}
            /\ \A k \in DOMAIN h.station :
                  /\ h.Datetime_UTC[k] % MinutesPerHour = 0
                  /\ \A c \in Range(ObservationVariables(d)) :
                        \E residue \in Residues :
                            h.data[c][k] =
                                Aggregate(AggRule(c),
                                          CellsAt(d, c, HourBucket(d, h.station[k],
                                                                   h.Datetime_UTC[k])),
                                          residue)

\* records at +30, +31 and on the next hour: two buckets
C12_Witness ==
    /\ pc = "hourly"
    /\ all_weather_data.Datetime_UTC = <<30, 31, 60>>
    /\ all_weather_data.station = <<StationA, StationA, StationA>>
    /\ hourly_aggregated.Datetime_UTC = <<0, 60>>
    /\ "Temperature" \in Range(hourly_aggregated.columns)
    /\ hourly_aggregated.data["Temperature"] = <<1000, 1001>>

\* C13: a call of create_hourly_aggregates or create_daily_aggregates
\* leaves the table it is given with the same columns and the same values
C13_AggregatorsLeaveTable ==
    [][pc' \in {"hourly", "daily"} => all_weather_data' = all_weather_data]_vars

\* the columns the daily table has for a variable
DailyColumnsOf(c) ==
    IF AggRule(c) = "mean"
    THEN {c \o "_min", c \o "_max", c \o "_mean"}
    ELSE {c}

\* C14: whichever aggregator ran first, the columns of the daily table
\* after timestamp and station are one column per gust, rain or direction
\* variable of the observation table and <var>_min, <var>_max, <var>_mean
\* per other variable, and nothing else
C14_DailyColumnsFromVariables ==
    pc = "daily" =>
        Range(daily_aggregated.columns)
            = UNION {DailyColumnsOf(c) :
                        c \in Range(ObservationVariables(all_weather_data))}

\* the records of station s on the UTC day that starts at minute t
DayBucket(d, s, t) ==
    {i \in 1..NRows(d) : /\ d.station[i] = s
                          /\ d.Datetime_UTC[i] >= t
                          /\ d.Datetime_UTC[i] < t + MinutesPerDay}

\* C15: in the daily table a variable that is neither a gust, a rain nor a
\* direction variable has exactly the three columns <var>_min, <var>_max
\* and <var>_mean, and in every row whose station and day have a
\* non-missing value of it, <var>_min <= <var>_mean <= <var>_max
C15_DailyMinMeanMax ==
    pc = "daily" =>
        LET d == all_weather_data
            t == daily_aggregated
        IN  \A c \in Range(ObservationVariables(d)) :
                AggRule(c) = "mean" =>
                    /\ c \notin Range(t.columns)
                    /\ \A suffix \in {"_min", "_max", "_mean"} :
                          Cardinality({j \in DOMAIN t.columns :
                                          t.columns[j] = c \o suffix}) = 1
                    /\ \A k \in DOMAIN t.station :
                          (\E i \in DayBucket(d, t.station[k], t.Datetime_UTC[k]) :
                                ~IsNull(d.data[c][i]))
                          => /\ ~IsNull(t.data[c \o "_min"][k])
                             /\ t.data[c \o "_min"][k] <= t.data[c \o "_mean"][k]
                             /\ t.data[c \o "_mean"][k] <= t.data[c \o "_max"][k]

\* a day of one station with a missing and two different values
C15_Witness ==
    /\ pc = "daily"
    /\ "Temperature_mean" \in Range(daily_aggregated.columns)
    /\ \E k \in DOMAIN daily_aggregated.station :
          /\ daily_aggregated.data["Temperature_min"][k] = 1000
          /\ daily_aggregated.data["Temperature_mean"][k] = 1000
          /\ daily_aggregated.data["Temperature_max"][k] = 1001
          /\ \E i \in DayBucket(all_weather_data, daily_aggregated.station[k],
                                  daily_aggregated.Datetime_UTC[k]) :
                IsNull(all_weather_data.data["Temperature"][i])

\* the variables of AggVariables by the kind their name makes them, the
\* gust test first, then the rain test, then the direction test
GustVariables == {"Wind Gust Speed", "Rain Gust Speed"}
RainVariables == {"Rain", "Rain Wind Direction"}
DirectionVariables == {"Wind Direction"}

\* C16: in the hourly table the value of a variable in a (station, hour)
\* row is, over the non-missing values of the records of the bucket, the
\* maximum for a gust variable, else the sum for a rain variable, else the
\* circular mean for a direction variable, else the arithmetic mean
\* (rounded to 2 decimals)
C16_HourlyFunctionByName ==
    pc = "hourly" =>
        LET d == all_weather_data
            h == hourly_aggregated
        IN  \A c \in Range(ObservationVariables(d)) :
            \A k \in DOMAIN h.station :
                LET valid == DropNa(CellsAt(d, c, HourBucket(d, h.station[k],
                                                             h.Datetime_UTC[k])))
                    value == h.data[c][k]
                IN  IF c \in GustVariables
                    THEN IF valid = <<>> THEN IsNull(value)
                         ELSE /\ value \in Range(valid)
                              /\ \A v \in Range(valid) : v <= value
                    ELSE IF c \in RainVariables
                    THEN value = SeqSum(valid)
                    ELSE IF c \in DirectionVariables
                    THEN IF valid = <<>> THEN IsNull(value)
                         ELSE \E residue \in Residues :
                                 value = RoundHalfEven(
                                             circular_mean_degrees(valid, residue),
                                             AngleUnit \div Scale)
                    ELSE IF valid = <<>> THEN IsNull(value)
                         ELSE value = RoundHalfEven(SeqSum(valid), Len(valid))

\* a bucket of two records of a variable whose name passes both the gust
\* and the rain test: the maximum, not the sum
C16_Witness ==
    /\ pc = "hourly"
    /\ "Rain Gust Speed" \in Range(hourly_aggregated.columns)
    /\ all_weather_data.Datetime_UTC = <<0, 30>>
    /\ all_weather_data.station = <<StationA, StationA>>
    /\ all_weather_data.data["Rain Gust Speed"] = <<20, 50>>
    /\ hourly_aggregated.data["Rain Gust Speed"] = <<50>>

\* the rows of the report about column c: of the stations, and the summary
ReportRowsOfStations(report, c) ==
    SelectSeq(report, LAMBDA row : row.column = c /\ row.station # "ALL_STATIONS")

ReportRowsOfSummary(report, c) ==
    SelectSeq(report, LAMBDA row : row.column = c /\ row.station = "ALL_STATIONS")

\* the sum of a field over rows
RECURSIVE FieldSum(_, _)
FieldSum(rows, field) ==
    IF rows = <<>> THEN 0 ELSE rows[1][field] + FieldSum(Tail(rows), field)

\* the present values of column c over all the stations, ascending
PresentOverall(d, c) == SortSeq(DropNa(d.data[c]), LAMBDA a, b : a < b)

\* the median of an ascending sequence, times 2
Median2(sorted) ==
    LET n == Len(sorted)
    IN  IF n % 2 = 1 THEN 2 * sorted[(n + 1) \div 2]
        ELSE sorted[n \div 2] + sorted[n \div 2 + 1]

\* C18: for every variable the report has one ALL_STATIONS row; its
\* total_rows, missing_count and four tier counts are the sums of these
\* fields over the rows of the stations, and its mean, median, min, max and
\* quartiles are those of the present values of all the stations together
C18_SummaryRowIsTotal ==
    pc = "quality" =>
        LET d == all_weather_data
        IN  \A c \in Range(ObservationVariables(d)) :
                LET per_station == ReportRowsOfStations(data_quality_report, c)
                    summary == ReportRowsOfSummary(data_quality_report, c)
                    present == PresentOverall(d, c)
                    n == Len(present)
                IN  /\ Len(summary) = 1
                    /\ \A field \in {"total_rows", "missing_count",
                                       "original_data_count", "interpolated_count",
                                       "forward_backward_filled_count",
                                       "calculated_count"} :
                          summary[1][field] = FieldSum(per_station, field)
                    /\ IF n = 0
                       THEN \A field \in {"mean", "median", "min", "max", "q1", "q3"} :
                               IsNull(summary[1][field])
                       ELSE /\ summary[1].mean = RoundHalfEven(SeqSum(present), n)
                            /\ summary[1].median = RoundHalfEven(Median2(present), 2)
                            /\ summary[1].min = present[1]
                            /\ summary[1].max = present[n]
                            /\ summary[1].q1 = RoundHalfEven(Quantile4(present, 1), 4)
                            /\ summary[1].q3 = RoundHalfEven(Quantile4(present, 3), 4)

\* two stations with flagged Temperature records, of different values
C18_Witness ==
    /\ pc = "quality"
    /\ all_weather_data.station = <<StationA, StationA, StationB>>
    /\ "Temperature_imputed" \in Range(all_weather_data.columns)
    /\ all_weather_data.data["Temperature"] = <<1000, NaN, 1001>>
    /\ \E row \in Range(data_quality_report) :
          /\ row.station = "ALL_STATIONS"
          /\ row.column = "Temperature"
          /\ row.total_rows = 3
          /\ row.missing_count = 1
          /\ row.interpolated_count = 1
          /\ row.forward_backward_filled_count = 1
          /\ row.calculated_count = 1
          /\ row.max = 1001

C20_EmptyTableEmptyResults ==
    NRows(all_weather_data) = 0 =>
        /\ pc # "failed"
        /\ pc = "quality" => data_quality_report = <<>>
        /\ pc = "hourly" => hourly_aggregated.station = <<>>
        /\ pc = "daily" => daily_aggregated.station = <<>>

----------------------------------------------------------------------------
\* the current column is one whose Tier 3 rule reads a column the table
\* does not have
RequiredColumnAbsent ==
    \/ col = "Wind Gust Speed" /\ "Wind Speed" \notin Range(df.columns)
    \/ col = "Rh" /\ ("Temperature" \notin Range(df.columns)
                        \/ "Dew" \notin Range(df.columns))

\* C21: when the column a Tier 3 derivation reads is absent (Wind Speed for
\* Wind Gust Speed, Temperature or Dew for Rh), Tier 3 changes no value and
\* no tag of the variable and the function goes on to the bounds step
C21_Tier3SkippedWhenColumnAbsent ==
    [][(pc = "tier3" /\ RequiredColumnAbsent) =>
          /\ df'.data[col] = df.data[col]
          /\ df'.data[FlagCol(col)] = df.data[FlagCol(col)]
          /\ df'.columns = df.columns
          /\ pc' = "bounds"]_vars

\* after Tier 3 a Wind Gust Speed cell of an impute station is still
\* missing, in a table without Wind Speed
C21_Witness ==
    /\ AfterTier3
    /\ col = "Wind Gust Speed"
    /\ "Wind Speed" \notin Range(df.columns)
    /\ \E i \in 1..NRows(df) :
          /\ df.station[i] \in Range(stations_to_impute)
          /\ IsNull(df.data[col][i])

----------------------------------------------------------------------------
\* the tag of the tier the function is about to run
TierTag ==
    IF pc = "tier1" THEN Interpolated
    ELSE IF pc = "tier2" THEN NeighborFilled
    ELSE Derived

\* C22: a value that a tier fills (missing when the tier starts, present
\* when it ends) carries the tag of that tier, 1, 2 or 3, and a tier leaves
\* the tag of every value that was present when it started; so after tiers
\* 1-3 the tag of a filled value names the tier that filled it
C22_TagNamesFillingTier ==
    [][(pc \in {"tier1", "tier2", "tier3"}) =>
          \A i \in 1..NRows(df) :
              /\ (IsNull(df.data[col][i]) /\ ~IsNull(df'.data[col][i]))
                    => df'.data[FlagCol(col)][i] = TierTag
              /\ ~IsNull(df.data[col][i])
                    => df'.data[FlagCol(col)][i] = df.data[FlagCol(col)][i]]_vars

\* a Temperature column after its tiers, with a cell filled by Tier 1 and
\* a cell filled by Tier 2
C22_Witness ==
    /\ AfterTier3
    /\ col = "Temperature"
    /\ \E i, j \in 1..NRows(df) :
          /\ IsNull(InputCells(col)[i]) /\ IsNull(InputCells(col)[j])
          /\ ~IsNull(df.data[col][i]) /\ ~IsNull(df.data[col][j])
          /\ df.data[FlagCol(col)][i] = Interpolated
          /\ df.data[FlagCol(col)][j] = NeighborFilled

----------------------------------------------------------------------------
\* the orders of n columns
ColumnOrders(n) ==
    {p \in [1..n -> 1..n] : \A a, b \in 1..n : p[a] = p[b] => a = b}

\* the table d with its columns in the order p
PermuteColumns(d, p) ==
    [d EXCEPT !.columns = [k \in DOMAIN d.columns |-> d.columns[p[k]]]]

\* C23: the values and tags impute_missing_values returns for every
\* variable are the same in whatever order the columns of the table are
\* processed, the variables whose Tier 3 rule reads another one included
C23_ColumnOrderIrrelevant ==
    pc = "done" =>
        \A p \in ColumnOrders(Len(input.columns)) :
            impute_missing_values(PermuteColumns(input, p)).data = df.data

----------------------------------------------------------------------------
\* the table made of the records of station st in d, and nothing else
StationTable(d, st) ==
    LET rows == StationRows(d, st)
    IN  [columns |-> d.columns,
         station |-> [k \in DOMAIN rows |-> st],
         Datetime_UTC |-> Times(d, rows),
         data |-> [c \in DOMAIN d.data |-> Cells(d, c, rows)]]

\* C24: what the eligibility pass and tiers 1-3 make of the records of a
\* station is what they make of a table that holds these records alone, so
\* two tables that agree on the station give it the same values
C24_NoCrossStationDependency ==
    [][(pc \in {"eligibility", "tier1", "tier2", "tier3"}) =>
          \A st \in Range(df.station) :
              LET alone == StationTable(df, st)
                  sts == SelectSeq(stations_to_impute, LAMBDA x : x = st)
              IN  IF pc = "eligibility"
                  THEN (st \in Range(stations_to_impute'))
                          <=> StationsToImpute(alone, col) = <<st>>
                  ELSE Cells(df', col, StationRows(df, st))
                          = (IF pc = "tier1" THEN Tier1(alone, col, sts)
                             ELSE IF pc = "tier2" THEN Tier2(alone, col, sts)
                             ELSE Tier3(alone, col, sts)).data[col]]_vars

\* after the tiers of a variable without Tier 2 and Tier 3 rule, the last
\* record of station A is still missing although the next record of the
\* table, of station B, has a value, and another cell of A was filled
C24_Witness ==
    /\ AfterTier3
    /\ \E i \in 1..(NRows(df) - 1) :
          /\ df.station[i] = StationA
          /\ df.station[i + 1] = StationB
          /\ IsNull(df.data[col][i])
          /\ ~IsNull(df.data[col][i + 1])
          /\ df.station[i] \in Range(stations_to_impute)
    /\ \E j \in 1..NRows(df) :
          /\ IsNull(InputCells(col)[j])
          /\ ~IsNull(df.data[col][j])

----------------------------------------------------------------------------
\* the number of records of d with station st and timestamp t
RecordCount(d, st, t) ==
    Cardinality({i \in 1..NRows(d) : d.station[i] = st /\ d.Datetime_UTC[i] = t})

\* C25: the table impute_missing_values returns has exactly the (station,
\* timestamp) records of its input, in the order of station and then
\* timestamp, and every column of the input
C25_RecordsKept ==
    pc = "done" =>
        /\ NRows(df) = NRows(input)
        /\ \A i \in 1..NRows(input) :
              RecordCount(df, input.station[i], input.Datetime_UTC[i])
                  = RecordCount(input, input.station[i], input.Datetime_UTC[i])
        /\ \A i \in 1..(NRows(df) - 1) :
              \/ StationRank(df.station[i]) < StationRank(df.station[i + 1])
              \/ /\ df.station[i] = df.station[i + 1]
                 /\ df.Datetime_UTC[i] <= df.Datetime_UTC[i + 1]
        /\ Range(input.columns) \subseteq Range(df.columns)
        /\ \A c \in Range(input.columns) : Len(df.data[c]) = NRows(df)

\* an input that starts with the record of station B and has a gap: the
\* result starts with station A and has a flag column more
C25_Witness ==
    /\ pc = "done"
    /\ NRows(input) > 5
    /\ input.station[1] = StationB
    /\ df.station[1] = StationA
    /\ input.Datetime_UTC[2] > input.Datetime_UTC[3]
    /\ Len(df.columns) > Len(input.columns)

----------------------------------------------------------------------------
\* the <<station, timestamp>> keys of the rows of an aggregated table t are
\* pairwise different
OneRowPerBucket(t) ==
    \A j, k \in DOMAIN t.station :
        (t.station[j] = t.station[k] /\ t.Datetime_UTC[j] = t.Datetime_UTC[k])
            => j = k

\* every value of column c of d at the records listed in rows is missing
AllMissing(d, c, rows) == \A i \in rows : IsNull(d.data[c][i])

\* C26: in the hourly and in the daily table every row is the only one of
\* its station and bucket and has a source record; where all the values of
\* a variable in the bucket are missing, a rain variable gets 0 and any
\* other variable (mean, min, max, circular mean) gets missing
C26_EmptyBucketValues ==
    LET d == all_weather_data
    IN  /\ pc = "hourly" =>
              LET h == hourly_aggregated
              IN  /\ OneRowPerBucket(h)
                  /\ \A k \in DOMAIN h.station :
                        LET rows == HourBucket(d, h.station[k], h.Datetime_UTC[k])
                        IN  /\ rows # {}
                            /\ \A c \in Range(ObservationVariables(d)) :
                                  AllMissing(d, c, rows) =>
                                      IF c \in RainVariables
                                      THEN h.data[c][k] = 0
                                      ELSE IsNull(h.data[c][k])
        /\ pc = "daily" =>
              LET t == daily_aggregated
              IN  /\ OneRowPerBucket(t)
                  /\ \A k \in DOMAIN t.station :
                        LET rows == DayBucket(d, t.station[k], t.Datetime_UTC[k])
                        IN  /\ rows # {}
                            /\ \A c \in Range(ObservationVariables(d)) :
                                  AllMissing(d, c, rows) =>
                                      IF c \in RainVariables
                                      THEN t.data[c][k] = 0
                                      ELSE IF c \in GustVariables \cup DirectionVariables
                                      THEN IsNull(t.data[c][k])
                                      ELSE /\ IsNull(t.data[c \o "_min"][k])
                                           /\ IsNull(t.data[c \o "_max"][k])
                                           /\ IsNull(t.data[c \o "_mean"][k])

\* two records of one hour whose Rain is missing, aggregated hourly and
\* then daily: 0 in both tables
C26_Witness ==
    /\ pc = "daily"
    /\ "hour_label" \in Range(all_weather_data.columns)
    /\ all_weather_data.station = <<StationA, StationA>>
    /\ all_weather_data.Datetime_UTC = <<0, 30>>
    /\ "Rain" \in Range(all_weather_data.columns)
    /\ all_weather_data.data["Rain"] = <<NaN, NaN>>
    /\ hourly_aggregated.data["Rain"] = <<0>>
    /\ daily_aggregated.data["Rain"] = <<0>>

============================================================================
